---- MODULE Spec2Model ----
(***************************************************************************)
(* Model of the mullion section-selection engine: calc.generate_plots,     *)
(* load_cases.generate_load_case_tables, calc.generate_section_database    *)
(* and pdf_export.generate_pdf_download_button, applied to one evaluation  *)
(* request.                                                                *)
(*                                                                         *)
(* Python floats are modelled as exact extended rationals [n, d]:          *)
(*   d > 0           the finite value n/d, in lowest terms                 *)
(*   d = 0, n = 1    +inf        d = 0, n = -1   -inf                      *)
(*   d = 0, n = 0    NaN                                                   *)
(* which is what numpy / pandas float64 arithmetic produces on a division  *)
(* by zero.  Rounding of the 53-bit mantissa and the sign of zero are not  *)
(* modelled.                                                               *)
(***************************************************************************)
EXTENDS Integers, Sequences, FiniteSets, TLC

VARIABLES
    wind_pressure,          \* kPa
    bay_width,              \* mm
    mullion_length,         \* mm
    selected_barrier_load,  \* kN/m
    ULS_case,
    SLS_case,
    df_selected,            \* the section catalog: a sequence of rows
    plot_material,
    selected_suppliers,
    use_custom_section,
    custom_section_data,    \* a record, or EmptyDict
    pc,                     \* which call of the evaluation comes next
    plots,                  \* outcome of generate_plots
    load_case_tables,       \* outcome of generate_load_case_tables
    section_database,       \* outcome of generate_section_database
    pdf_report              \* outcome of generate_pdf_download_button

inputs == <<wind_pressure, bay_width, mullion_length, selected_barrier_load,
            ULS_case, SLS_case, df_selected, plot_material, selected_suppliers,
            use_custom_section, custom_section_data>>

vars == <<inputs, pc, plots, load_case_tables, section_database, pdf_report>>

-----------------------------------------------------------------------------
(* Extended rational arithmetic standing for float64 arithmetic.           *)

Abs(x) == IF x < 0 THEN -x ELSE x

Sign(x) == IF x > 0 THEN 1 ELSE IF x < 0 THEN -1 ELSE 0

RECURSIVE GCD(_, _)
GCD(a, b) == IF b = 0 THEN a ELSE GCD(b, a % b)

\* The value n/d for integers n, d with d >= 0, in lowest terms.
Q(n, d) ==
    IF d = 0 THEN [n |-> Sign(n), d |-> 0]
    ELSE LET g == GCD(Abs(n), d) IN [n |-> n \div g, d |-> d \div g]

R(i) == [n |-> i, d |-> 1]

NaN == [n |-> 0, d |-> 0]
Inf == [n |-> 1, d |-> 0]

IsNaN(x) == x.d = 0 /\ x.n = 0
IsFinite(x) == x.d # 0

\* x * y, cancelling across before multiplying so that the intermediate
\* integers are no larger than those of the result.
Mul(x, y) ==
    IF x.d = 0 \/ y.d = 0 THEN [n |-> Sign(x.n) * Sign(y.n), d |-> 0]
    ELSE LET g1 == GCD(Abs(x.n), y.d)
             g2 == GCD(Abs(y.n), x.d)
         IN  [n |-> (x.n \div g1) * (y.n \div g2),
              d |-> (x.d \div g2) * (y.d \div g1)]

\* 1 / x; 1/0 is +inf, as numpy gives for a positive numerator.
Recip(x) ==
    IF x.n > 0 THEN [n |-> x.d, d |-> x.n]
    ELSE IF x.n < 0 THEN [n |-> -x.d, d |-> -x.n]
    ELSE IF x.d = 0 THEN NaN ELSE Inf

Div(x, y) == Mul(x, Recip(y))

Add(x, y) ==
    IF x.d = 0 \/ y.d = 0
    THEN IF IsNaN(x) \/ IsNaN(y) THEN NaN
         ELSE IF x.d = 0 /\ y.d = 0
              THEN (IF x.n = y.n THEN x ELSE NaN)
              ELSE (IF x.d = 0 THEN x ELSE y)
    ELSE LET g == GCD(x.d, y.d)
         IN  Q(x.n * (y.d \div g) + y.n * (x.d \div g), (x.d \div g) * y.d)

Neg(x) == [n |-> -x.n, d |-> x.d]

Sub(x, y) == Add(x, Neg(y))

\* Whether a/b <= c/d for naturals a, c and positive b, d, by the integer
\* parts and then the reciprocals of the remainders (no product is formed).
RECURSIVE FracLeq(_, _, _, _)
FracLeq(a, b, c, d) ==
    IF a \div b # c \div d THEN a \div b < c \div d
    ELSE IF a % b = 0 THEN TRUE
    ELSE IF c % d = 0 THEN FALSE
    ELSE FracLeq(d, c % d, b, a % b)

\* x <= y as IEEE compares: false when either side is NaN.
Leq(x, y) ==
    IF IsNaN(x) \/ IsNaN(y) THEN FALSE
    ELSE IF x.d = 0 /\ y.d = 0 THEN x.n <= y.n
    ELSE IF x.d = 0 THEN x.n < 0
    ELSE IF y.d = 0 THEN y.n > 0
    ELSE IF Sign(x.n) # Sign(y.n) THEN x.n <= y.n
    ELSE IF x.n >= 0 THEN FracLeq(x.n, x.d, y.n, y.d)
    ELSE FracLeq(-y.n, y.d, -x.n, x.d)

Lt(x, y) == Leq(x, y) /\ x # y

Gt(x, y) == Lt(y, x)

Geq(x, y) == Leq(y, x)

\* Cancel the integer x against each element of the integer sequence D.
RECURSIVE CancelOne(_, _, _)
CancelOne(x, D, i) ==
    IF i > Len(D) \/ x = 1 THEN <<x, D>>
    ELSE LET g == GCD(Abs(x), Abs(D[i]))
         IN  IF g <= 1 THEN CancelOne(x, D, i + 1)
             ELSE CancelOne(x \div g, [D EXCEPT ![i] = D[i] \div g], i + 1)

RECURSIVE CancelAll(_, _, _)
CancelAll(N, D, i) ==
    IF i > Len(N) THEN <<N, D>>
    ELSE LET c == CancelOne(N[i], D, 1)
         IN  CancelAll([N EXCEPT ![i] = c[1]], c[2], i + 1)

RECURSIVE Product(_)
Product(s) == IF s = <<>> THEN 1 ELSE Head(s) * Product(Tail(s))

RECURSIVE MulAll(_)
MulAll(s) == IF s = <<>> THEN R(1) ELSE Mul(Head(s), MulAll(Tail(s)))

\* A finite value replaced by its sign; a non-finite one unchanged.  A quotient
\* with a zero or non-finite factor depends on the factors' signs only.
SignClass(x) == IF x.d = 0 THEN x ELSE R(Sign(x.n))

\* (product of nums) / (product of dens) for sequences of extended
\* rationals.  When every factor is finite and no divisor is zero the
\* factors are cancelled pairwise first, so L**4 and E * Iyy never have to
\* be formed as machine integers; otherwise the IEEE rules of Mul and Div
\* decide.
Frac(nums, dens) ==
    IF /\ \A i \in 1..Len(nums) : nums[i].d # 0
       /\ \A i \in 1..Len(dens) : dens[i].d # 0 /\ dens[i].n # 0
    THEN LET NotOne(k) == k # 1
             N == SelectSeq([i \in 1..Len(nums) |-> nums[i].n] \o
                            [i \in 1..Len(dens) |-> dens[i].d], NotOne)
             D == SelectSeq([i \in 1..Len(nums) |-> nums[i].d] \o
                            [i \in 1..Len(dens) |-> dens[i].n], NotOne)
             c == CancelAll(N, D, 1)
             p == Product(c[1])
             q == Product(c[2])
         IN  IF q < 0 THEN [n |-> -p, d |-> -q] ELSE [n |-> p, d |-> q]
    ELSE Div(MulAll([i \in 1..Len(nums) |-> SignClass(nums[i])]),
             MulAll([i \in 1..Len(dens) |-> SignClass(dens[i])]))

Max2(x, y) == IF Leq(x, y) THEN y ELSE x

\* The integer nearest to n / d (d > 0), the even one of two equally near.
Rint(n, d) ==
    LET q == n \div d
        r == n % d
    IN  IF 2 * r < d THEN q
        ELSE IF 2 * r > d THEN q + 1
        ELSE IF q % 2 = 0 THEN q ELSE q + 1

\* Series.round(decimals) for decimals = 1 (scale 10) and 2 (scale 100):
\* NaN and the infinities are left as they are.
Round(x, scale) ==
    IF x.d = 0 THEN x
    ELSE LET y == Mul(x, R(scale)) IN Q(Rint(y.n, y.d), scale)

-----------------------------------------------------------------------------
(* config.py                                                               *)

\* material_props with an entry for Timber that has no strength and no
\* stiffness.
material_props_WithTimber ==
    [Aluminium |-> [fy |-> 160, E |-> 70000],
     Steel     |-> [fy |-> 275, E |-> 210000],
     Timber    |-> [fy |-> 0, E |-> 0]]

material_props ==
    [Aluminium |-> [fy |-> 160, E |-> 70000],
     Steel     |-> [fy |-> 275, E |-> 210000]]

BARRIER_LENGTH == 1100

TT_Purple == "rgb(128,0,128)"

-----------------------------------------------------------------------------
(* Values shared by the functions.                                         *)

\* str.startswith on a load-case label.  A label is modelled by its leading
\* case identifier ("ULS 1", "SLS 2", ...); the descriptive tail that the
\* radio buttons add after it is dropped.
StartsWith(label, prefix) == label = prefix

\* An empty dict (or None) is falsy in Python; any filled dict is truthy.
EmptyDict == [type |-> "empty"]

Truthy(dict) == dict # EmptyDict

Range(s) == {s[i] : i \in 1..Len(s)}

\* p = wind_pressure * 0.001 ; w = p * bay
WindLineLoad(wp, bay) == Mul(Mul(wp, Q(1, 1000)), R(bay))

\* M_WL = (w * L**2) / 8
M_WL(wp, bay, L) == Frac(<<WindLineLoad(wp, bay), R(L), R(L)>>, <<R(8)>>)

\* M_BL = ((selected_barrier_load * bay) * BARRIER_LENGTH) / 2
M_BL(bl, bay) == Frac(<<bl, R(bay), R(BARRIER_LENGTH)>>, <<R(2)>>)

\* M_ULS with the factors of ULS 2 the wrong way round.
M_ULS_SwappedFactors(case, mwl, mbl) ==
    IF StartsWith(case, "ULS 1") THEN Add(Mul(Q(3, 2), mwl), Mul(Q(3, 4), mbl))
    ELSE IF StartsWith(case, "ULS 2") THEN Add(Mul(Q(3, 2), mwl), Mul(Q(3, 4), mbl))
    ELSE IF StartsWith(case, "ULS 3") THEN Mul(Q(3, 2), mwl)
    ELSE IF StartsWith(case, "ULS 4") THEN Mul(Q(3, 2), mbl)
    ELSE R(0)

\* The if / elif chain of generate_plots over the ULS case label.
M_ULS(case, mwl, mbl) ==
    IF StartsWith(case, "ULS 1") THEN Add(Mul(Q(3, 2), mwl), Mul(Q(3, 4), mbl))
    ELSE IF StartsWith(case, "ULS 2") THEN Add(Mul(Q(3, 4), mwl), Mul(Q(3, 2), mbl))
    ELSE IF StartsWith(case, "ULS 3") THEN Mul(Q(3, 2), mwl)
    ELSE IF StartsWith(case, "ULS 4") THEN Mul(Q(3, 2), mbl)
    ELSE R(0)

\* Z_req_cm3 with the yield strength of Aluminium for every material.
Z_req_cm3_AluminiumOnly(case, wp, bay, L, bl, material) ==
    Div(Div(M_ULS(case, M_WL(wp, bay, L), M_BL(bl, bay)),
            R(material_props["Aluminium"].fy)),
        R(1000))

\* Z_req = M_ULS / fy ; Z_req_cm3 = Z_req / 1000
Z_req_cm3(case, wp, bay, L, bl, material) ==
    Div(Div(M_ULS(case, M_WL(wp, bay, L), M_BL(bl, bay)),
            R(material_props[material].fy)),
        R(1000))

\* defl_limit with the constant 5 of the middle branch left out.
defl_limit_NoOffset(L) ==
    IF L <= 3000 THEN Q(L, 200)
    ELSE IF L < 7500 THEN Q(L, 300)
    ELSE Q(L, 250)

\* defl_limit with L / 300 in the last branch.
defl_limit_DropAt7500(L) ==
    IF L <= 3000 THEN Q(L, 200)
    ELSE IF L < 7500 THEN Add(R(5), Q(L, 300))
    ELSE Q(L, 300)

\* The cases of delta_lim in the "Deflection Limits" section of the
\* documentation page: L/200 if L <= 3000, 5 + L/300 if 3000 < L <= 7500,
\* L/250 if L > 7500.
delta_lim(L) ==
    IF L <= 3000 THEN Q(L, 200)
    ELSE IF L <= 7500 THEN Add(R(5), Q(L, 300))
    ELSE Q(L, 250)

\* Deflection limit based on mullion length.
defl_limit(L) ==
    IF L <= 3000 THEN Q(L, 200)
    ELSE IF L < 7500 THEN Add(R(5), Q(L, 300))
    ELSE Q(L, 250)

\* (0.75 * L**2 - BARRIER_LENGTH**2)
BarrierSpanFactor(L) ==
    Sub(Mul(Q(3, 4), R(L * L)), R(BARRIER_LENGTH * BARRIER_LENGTH))

\* d_wl = (5 * w * L**4) / (384 * E * Iyy)
d_wl(wp, bay, L, E, Iyy) ==
    Frac(<<R(5), WindLineLoad(wp, bay), R(L), R(L), R(L), R(L)>>,
         <<R(384), R(E), Iyy>>)

\* d_bl = ((F_BL * BARRIER_LENGTH) / (12 * E * Iyy)) * (0.75 * L**2 - BARRIER_LENGTH**2)
d_bl(bl, bay, L, E, Iyy) ==
    Mul(Frac(<<Mul(bl, R(bay)), R(BARRIER_LENGTH)>>, <<R(12), R(E), Iyy>>),
        BarrierSpanFactor(L))

\* defl_total with the wind formula for every SLS case.
defl_total_WindOnly(case, wp, bay, L, bl, E, Iyy) == d_wl(wp, bay, L, E, Iyy)

\* defl_total = d_wl if SLS_case.startswith("SLS 1") else d_bl
defl_total(case, wp, bay, L, bl, E, Iyy) ==
    IF StartsWith(case, "SLS 1") THEN d_wl(wp, bay, L, E, Iyy)
    ELSE d_bl(bl, bay, L, E, Iyy)

\* I_req with the wind formula for every SLS case.
I_req_WindOnly(case, wp, bay, L, bl, E, limit) ==
    Frac(<<R(5), WindLineLoad(wp, bay), R(L), R(L), R(L), R(L)>>,
         <<R(384), R(E), limit>>)

\* The required moment of inertia: the deflection formula of the active SLS
\* case with defl_limit in the place of the deflection.
I_req(case, wp, bay, L, bl, E, limit) ==
    IF StartsWith(case, "SLS 1")
    THEN Frac(<<R(5), WindLineLoad(wp, bay), R(L), R(L), R(L), R(L)>>,
              <<R(384), R(E), limit>>)
    ELSE Mul(Frac(<<Mul(bl, R(bay)), R(BARRIER_LENGTH)>>, <<R(12), R(E), limit>>),
             BarrierSpanFactor(L))

\* FilterCatalog without the test of the supplier.
FilterCatalog_MaterialOnly(df, material, suppliers) ==
    SelectSeq(df, LAMBDA row : row.Material = material)

\* df_selected[(Material == plot_material) & Supplier.isin(selected_suppliers)]
FilterCatalog(df, material, suppliers) ==
    SelectSeq(df, LAMBDA row : row.Material = material /\ row.Supplier \in suppliers)

-----------------------------------------------------------------------------
(* calc.generate_plots                                                     *)

\* The parallel arrays depths, Wyy_vals, Iyy_vals, profiles, reinf, supps and
\* available_cm3 of one filtered catalog row, as one record.
PlotRow(row) ==
    [Depth |-> row.Depth, Wyy |-> R(row.Wyy), Iyy |-> R(row.Iyy),
     ProfileName |-> row.ProfileName, Reinf |-> row.Reinf,
     Supplier |-> row.Supplier, available_cm3 |-> Q(row.Wyy, 1000)]

\* The np.append calls that add the custom section to every array.
PlotCustomRow(custom) ==
    [Depth |-> custom.depth, Wyy |-> Mul(custom.Z, R(1000)),
     Iyy |-> Mul(custom.I, R(10000)), ProfileName |-> custom.name,
     Reinf |-> TRUE, Supplier |-> "Custom", available_cm3 |-> custom.Z]

\* PlotCandidates with the custom section put in front of the catalog rows.
PlotCandidates_CustomFirst(df_mat, use_custom, custom) ==
    LET rows == [i \in 1..Len(df_mat) |-> PlotRow(df_mat[i])]
    IN  (IF use_custom /\ Truthy(custom)
         THEN <<PlotCustomRow(custom)>> ELSE <<>>) \o rows

\* The arrays after "Add custom section if enabled".
PlotCandidates(df_mat, use_custom, custom) ==
    LET rows == [i \in 1..Len(df_mat) |-> PlotRow(df_mat[i])]
    IN  rows \o (IF use_custom /\ Truthy(custom)
                  THEN <<PlotCustomRow(custom)>> ELSE <<>>)

\* UlsPassed with the modulus in mm3 compared with the requirement in cm3.
UlsPassed_Mm3(cand, zreq) == Geq(cand.Wyy, zreq)

\* uls_passed = available_cm3 >= Z_req_cm3
UlsPassed(cand, zreq) == Geq(cand.available_cm3, zreq)

\* The marker colour of the ULS plot for the row at index i (1-based) of n.
UlsColor(i, n, passed, use_custom) ==
    IF i = n /\ use_custom
    THEN (IF passed THEN TT_Purple ELSE "darkred")
    ELSE (IF passed THEN "seagreen" ELSE "darkred")

\* ratio_sls = defl_values[i] / defl_limit if defl_limit != 0 else np.inf
RatioSls(defl, limit) == IF limit # R(0) THEN Div(defl, limit) ELSE Inf

\* The indices i (in order) that the 3D loop keeps: available_cm3[i] is not
\* zero and both ratios are <= 1.
Safe3D(cands, defls, zreq, limit) ==
    SelectSeq([i \in 1..Len(cands) |-> i],
              LAMBDA i : /\ cands[i].available_cm3 # R(0)
                         /\ Leq(Div(zreq, cands[i].available_cm3), R(1))
                         /\ Leq(RatioSls(defls[i], limit), R(1)))

\* One point of the 3D plot: uls_util, sls_util, depths_3d, safe_suppliers,
\* safe_profiles and colors_3d at one position.  source is the candidate's
\* index in the arrays (not held by the code; kept to name the candidate).
Point3D(i, cands, defls, zreq, limit, use_custom) ==
    [uls_util |-> Div(zreq, cands[i].available_cm3),
     sls_util |-> RatioSls(defls[i], limit),
     depth |-> cands[i].Depth,
     supplier |-> cands[i].Supplier,
     profile |-> cands[i].ProfileName,
     color |-> IF cands[i].Supplier = "Custom" /\ use_custom
               THEN TT_Purple ELSE "#1f77b4",
     source |-> i]

\* Naturals of any size, as sequences of base-10000 digits, lowest first:
\* the squares of the utilisation ratios do not fit a machine integer.
BigBase == 10000

RECURSIVE BigOf(_)
BigOf(n) == IF n = 0 THEN <<>> ELSE <<n % BigBase>> \o BigOf(n \div BigBase)

RECURSIVE BigAddC(_, _, _)
BigAddC(a, b, carry) ==
    IF a = <<>> /\ b = <<>> THEN (IF carry = 0 THEN <<>> ELSE <<carry>>)
    ELSE LET x == IF a = <<>> THEN 0 ELSE Head(a)
             y == IF b = <<>> THEN 0 ELSE Head(b)
             t == x + y + carry
         IN  <<t % BigBase>> \o
             BigAddC(IF a = <<>> THEN a ELSE Tail(a),
                     IF b = <<>> THEN b ELSE Tail(b), t \div BigBase)

BigAdd(a, b) == BigAddC(a, b, 0)

RECURSIVE BigScale(_, _, _)
BigScale(a, k, carry) ==
    IF a = <<>> THEN BigOf(carry)
    ELSE LET t == Head(a) * k + carry
         IN  <<t % BigBase>> \o BigScale(Tail(a), k, t \div BigBase)

RECURSIVE BigMul(_, _)
BigMul(a, b) ==
    IF a = <<>> \/ b = <<>> THEN <<>>
    ELSE BigAdd(BigScale(b, Head(a), 0), <<0>> \o BigMul(Tail(a), b))

RECURSIVE BigTrim(_)
BigTrim(a) ==
    IF a # <<>> /\ a[Len(a)] = 0 THEN BigTrim(SubSeq(a, 1, Len(a) - 1)) ELSE a

RECURSIVE BigLessFrom(_, _, _)
BigLessFrom(a, b, i) ==
    IF i = 0 THEN FALSE
    ELSE IF a[i] # b[i] THEN a[i] < b[i]
    ELSE BigLessFrom(a, b, i - 1)

BigLess(a, b) ==
    LET x == BigTrim(a)
        y == BigTrim(b)
    IN  IF Len(x) # Len(y) THEN Len(x) < Len(y) ELSE BigLessFrom(x, y, Len(x))

BigSq(n) == BigMul(BigOf(Abs(n)), BigOf(Abs(n)))

\* Whether d_array is larger at point p than at point q, where
\* d_array = sqrt(uls_util**2 + sls_util**2).  np.sqrt is increasing, so the
\* squares are compared: numerator and denominator of u**2 + s**2 are formed
\* as large naturals and cross-multiplied.  A ratio of -inf gives inf.
\* Two points of non-negative ratios of which one is no larger than the
\* other in both ratios are decided without forming the squares.
DistGt(p, q) ==
    LET pi == ~IsFinite(p.uls_util) \/ ~IsFinite(p.sls_util)
        qi == ~IsFinite(q.uls_util) \/ ~IsFinite(q.sls_util)
        NonNeg == /\ p.uls_util.n >= 0 /\ p.sls_util.n >= 0
                  /\ q.uls_util.n >= 0 /\ q.sls_util.n >= 0
        Within(s, t) == /\ Leq(s.uls_util, t.uls_util)
                        /\ Leq(s.sls_util, t.sls_util)
        Num(t) == BigAdd(BigMul(BigSq(t.uls_util.n), BigSq(t.sls_util.d)),
                         BigMul(BigSq(t.sls_util.n), BigSq(t.uls_util.d)))
        Den(t) == BigMul(BigSq(t.uls_util.d), BigSq(t.sls_util.d))
    IN  IF qi THEN FALSE
        ELSE IF pi THEN TRUE
        ELSE IF NonNeg /\ Within(p, q) THEN FALSE
        ELSE IF NonNeg /\ Within(q, p) THEN TRUE
        ELSE BigLess(BigMul(Num(q), Den(p)), BigMul(Num(p), Den(q)))

\* min(depths_3d)
RECURSIVE MinDepth(_)
MinDepth(pts) ==
    IF Len(pts) = 1 THEN pts[1].depth
    ELSE LET m == MinDepth(Tail(pts))
         IN  IF pts[1].depth <= m THEN pts[1].depth ELSE m

\* np.argmax over d_array[indices]: the position in indices of the first
\* largest value.
RECURSIVE ArgMax(_, _, _, _)
ArgMax(pts, indices, k, best) ==
    IF k > Len(indices) THEN best
    ELSE IF DistGt(pts[indices[k]], pts[indices[best]])
         THEN ArgMax(pts, indices, k + 1, k)
         ELSE ArgMax(pts, indices, k + 1, best)

\* RecIndex without the distance tie-break: the first point of least depth.
RecIndex_FirstOfMinDepth(pts) ==
    IF Len(pts) = 0 THEN 0
    ELSE LET min_depth_val == MinDepth(pts)
             indices == SelectSeq([i \in 1..Len(pts) |-> i],
                                  LAMBDA i : pts[i].depth = min_depth_val)
         IN  indices[1]

\* rec_index (1-based), or 0 when depths_3d is empty.
RecIndex(pts) ==
    IF Len(pts) = 0 THEN 0
    ELSE LET min_depth_val == MinDepth(pts)
             indices == SelectSeq([i \in 1..Len(pts) |-> i],
                                  LAMBDA i : pts[i].depth = min_depth_val)
         IN  IF Len(indices) = 1 THEN indices[1]
             ELSE indices[ArgMax(pts, indices, 1, 1)]

NoRecommendation ==
    [text |-> "No suitable profile - choose a custom one!",
     supplier |-> "", profile |-> ""]

\* recommended_text
RecommendedText(pts) ==
    IF RecIndex(pts) = 0 THEN NoRecommendation
    ELSE [text |-> "Recommended Profile",
          supplier |-> pts[RecIndex(pts)].supplier,
          profile |-> pts[RecIndex(pts)].profile]

NotRun == [status |-> "not_run"]

\* What generate_plots computes for the request: the KeyError of
\* material_props[plot_material] for a material that is not a key, the
\* ValueError of an empty filter, the ZeroDivisionError of I_req when
\* defl_limit is 0 (its operands are Python numbers), or the data of the
\* three figures with the returned values.
generate_plots(wp, bay, L, bl, uls, sls, df, material, suppliers, use_custom, custom) ==
    LET zreq   == Z_req_cm3(uls, wp, bay, L, bl, material)
        limit  == defl_limit(L)
        df_mat == FilterCatalog(df, material, suppliers)
        E      == material_props[material].E
    IN  IF material \notin DOMAIN material_props
        THEN [status |-> "KeyError", message |-> material]
        ELSE IF Len(df_mat) = 0
        THEN [status |-> "ValueError", message |-> "No sections selected."]
        ELSE IF limit = R(0)
        THEN [status |-> "ZeroDivisionError", message |-> "float division by zero"]
        ELSE
        LET cands  == PlotCandidates(df_mat, use_custom, custom)
            n      == Len(cands)
            passed == [i \in 1..n |-> UlsPassed(cands[i], zreq)]
            defls  == [i \in 1..n |->
                          defl_total(sls, wp, bay, L, bl, E, cands[i].Iyy)]
            valid  == SelectSeq([i \in 1..n |-> i], LAMBDA i : passed[i])
            safe   == Safe3D(cands, defls, zreq, limit)
            pts    == [k \in 1..Len(safe) |->
                          Point3D(safe[k], cands, defls, zreq, limit, use_custom)]
        IN  [status |-> "ok",
             M_ULS |-> M_ULS(uls, M_WL(wp, bay, L), M_BL(bl, bay)),
             Z_req_cm3 |-> zreq,
             defl_limit |-> limit,
             I_req_cm4 |-> Div(I_req(sls, wp, bay, L, bl, E, limit), R(10000)),
             candidates |-> cands,
             uls_passed |-> passed,
             uls_colors |-> [i \in 1..n |-> UlsColor(i, n, passed[i], use_custom)],
             defl_values |-> defls,
             valid |-> valid,
             sls_colors |-> [k \in 1..Len(valid) |->
                                UlsColor(valid[k], n,
                                         Leq(defls[valid[k]], limit), use_custom)],
             points_3d |-> pts,
             rec_index |-> RecIndex(pts),
             recommended_text |-> RecommendedText(pts)]

-----------------------------------------------------------------------------
(* calc.generate_section_database                                          *)

\* A row of df_mat taken from the filtered catalog (numeric columns are
\* float64 / int64 columns of the frame).
TableRow(row) ==
    [Supplier |-> row.Supplier, ProfileName |-> row.ProfileName,
     Material |-> row.Material, Reinf |-> row.Reinf, Depth |-> row.Depth,
     Iyy |-> R(row.Iyy), Wyy |-> R(row.Wyy)]

\* custom_row
CustomRow(custom, material) ==
    [Supplier |-> "Custom", ProfileName |-> custom.name,
     Material |-> material, Reinf |-> TRUE, Depth |-> custom.depth,
     Iyy |-> Mul(custom.I, R(10000)), Wyy |-> Mul(custom.Z, R(1000))]

\* df_mat after the filter, reset_index and the concat of custom_row.
TableCandidates(df, material, suppliers, use_custom, custom) ==
    LET df_mat == FilterCatalog(df, material, suppliers)
        rows   == [i \in 1..Len(df_mat) |-> TableRow(df_mat[i])]
    IN  rows \o (IF use_custom /\ Truthy(custom)
                  THEN <<CustomRow(custom, material)>> ELSE <<>>)

\* df_mat["ULS Utilisation"] = Z_req_cm3 / (df_mat["Wyy"] / 1000)
UlsUtilisation(row, zreq) == Div(zreq, Div(row.Wyy, R(1000)))

\* defl_total of the iterrows loop.
TableDeflection(row, wp, bay, L, bl, sls, E) ==
    IF StartsWith(sls, "SLS 1")
    THEN Frac(<<R(5), wp, Q(1, 1000), R(bay), R(L), R(L), R(L), R(L)>>,
              <<R(384), R(E), row.Iyy>>)
    ELSE Mul(Frac(<<Mul(bl, R(bay)), R(BARRIER_LENGTH)>>,
                  <<R(12), R(E), row.Iyy>>),
             Sub(Mul(Q(3, 4), R(L * L)), R(BARRIER_LENGTH * BARRIER_LENGTH)))

\* df_mat["SLS Utilisation"] = np.array(defl_values_table) / defl_limit
SlsUtilisation(defl, limit) == Div(defl, limit)

\* DataFrame.max(axis=1): the larger of the two, NaN skipped; NaN when both
\* are NaN.
MaxUtilisation(u, v) ==
    IF IsNaN(u) THEN v
    ELSE IF IsNaN(v) THEN u
    ELSE Max2(u, v)

\* A row of df_mat with its three computed columns.
Evaluated(row, zreq, limit, wp, bay, L, bl, sls, E) ==
    LET u == UlsUtilisation(row, zreq)
        defl == TableDeflection(row, wp, bay, L, bl, sls, E)
        v == SlsUtilisation(defl, limit)
    IN  [Supplier |-> row.Supplier, ProfileName |-> row.ProfileName,
         Material |-> row.Material, Reinf |-> row.Reinf, Depth |-> row.Depth,
         Iyy |-> row.Iyy, Wyy |-> row.Wyy, Deflection |-> defl,
         ULS_Utilisation |-> u, SLS_Utilisation |-> v,
         Max_Utilisation |-> MaxUtilisation(u, v)]

\* Whether the row with key x goes before the row with key e in sort_values:
\* NaN keys go last, equal keys keep their order.
SortsBefore(x, e, ascending) ==
    /\ ~IsNaN(x)
    /\ \/ IsNaN(e)
       \/ IF ascending THEN Lt(x, e) ELSE Gt(x, e)

\* Insert row r into the sorted rows, behind every row it does not sort
\* before (so that rows with equal keys keep their order).
RECURSIVE InsertRow(_, _, _, _)
InsertRow(sorted, r, column, ascending) ==
    IF sorted = <<>> THEN <<r>>
    ELSE LET last == sorted[Len(sorted)]
         IN  IF SortsBefore(r[column], last[column], ascending)
             THEN Append(InsertRow(SubSeq(sorted, 1, Len(sorted) - 1),
                                   r, column, ascending), last)
             ELSE Append(sorted, r)

\* SortValues that leaves the rows in the order it is given them.
SortValues_Unsorted(rows, column, ascending) == rows

\* DataFrame.sort_values(by=column, ascending=...): on the short tables of
\* this program numpy's sort is an insertion sort.
RECURSIVE SortValues(_, _, _)
SortValues(rows, column, ascending) ==
    IF rows = <<>> THEN <<>>
    ELSE InsertRow(SortValues(SubSeq(rows, 1, Len(rows) - 1), column, ascending),
                   rows[Len(rows)], column, ascending)

\* df_pass = df_mat[df_mat["Max Utilisation"] <= 1.0]
DfPass(rows) == SelectSeq(rows, LAMBDA r : Leq(r.Max_Utilisation, R(1)))

\* df_fail = df_mat[df_mat["Max Utilisation"] > 1.0]
DfFail(rows) == SelectSeq(rows, LAMBDA r : Gt(r.Max_Utilisation, R(1)))

\* DfSorted with an order of the segments that depends on whether a table
\* was produced before.
DfSorted_ByHistory(rows) ==
    IF section_database.status = "not_run"
    THEN SortValues(DfPass(rows), "SLS_Utilisation", FALSE) \o
         SortValues(DfFail(rows), "Max_Utilisation", TRUE)
    ELSE SortValues(DfFail(rows), "Max_Utilisation", TRUE) \o
         SortValues(DfPass(rows), "SLS_Utilisation", FALSE)

\* DfSorted with the two segments concatenated the other way round.
DfSorted_FailFirst(rows) ==
    SortValues(DfFail(rows), "Max_Utilisation", TRUE) \o
    SortValues(DfPass(rows), "SLS_Utilisation", FALSE)

\* df_sorted = pd.concat([df_pass, df_fail], ignore_index=True)
DfSorted(rows) ==
    SortValues(DfPass(rows), "SLS_Utilisation", FALSE) \o
    SortValues(DfFail(rows), "Max_Utilisation", TRUE)

\* A row of df_display: the display columns, with the properties and the
\* utilisations (as percentages) rounded.
DisplayRow(row) ==
    [Supplier |-> row.Supplier, ProfileName |-> row.ProfileName,
     Depth |-> row.Depth,
     Section_Modulus_cm3 |-> Round(Div(row.Wyy, R(1000)), 100),
     I_cm4 |-> Round(Div(row.Iyy, R(10000)), 100),
     ULS_Util_pct |-> Round(Mul(row.ULS_Utilisation, R(100)), 10),
     SLS_Util_pct |-> Round(Mul(row.SLS_Utilisation, R(100)), 10)]

\* row_style: is_custom and is_passing of the row at (1-based) position i.
RowStyle(row, i, pass_count) ==
    [is_custom |-> row.Supplier = "Custom", is_passing |-> i - 1 < pass_count]

\* What generate_section_database computes for the request.
\* material_props[plot_material] raises KeyError for a material that is not
\* a key.  Inside the iterrows loop Iyy_val is a Python number, so a row
\* with Iyy = 0 raises ZeroDivisionError.  The division by defl_limit is a
\* numpy division and does not raise.
generate_section_database(df, material, suppliers, custom, use_custom, wp, bay, L, bl, sls, limit, zreq) ==
    LET df_mat == TableCandidates(df, material, suppliers, use_custom, custom)
        E      == material_props[material].E
    IN  IF material \notin DOMAIN material_props
        THEN [status |-> "KeyError"]
        ELSE IF \E i \in 1..Len(df_mat) : df_mat[i].Iyy = R(0)
        THEN [status |-> "ZeroDivisionError"]
        ELSE
        LET rows == [i \in 1..Len(df_mat) |->
                        Evaluated(df_mat[i], zreq, limit, wp, bay, L, bl, sls, E)]
            df_sorted == DfSorted(rows)
            pass_count == Len(DfPass(rows))
        IN  [status |-> "ok",
             df_mat |-> rows,
             df_sorted |-> df_sorted,
             df_display |-> [i \in 1..Len(df_sorted) |-> DisplayRow(df_sorted[i])],
             pass_count |-> pass_count,
             styles |-> [i \in 1..Len(df_sorted) |->
                            RowStyle(df_sorted[i], i, pass_count)]]

-----------------------------------------------------------------------------
(* pdf_export.generate_pdf_download_button and create_pdf_report           *)

\* The first n entries of the sequence s.
Head5(s, n) == SubSeq(s, 1, IF Len(s) < n THEN Len(s) ELSE n)

\* Whether the PDF stage takes the row as passing: both displayed
\* percentages are <= 100.
PdfPassing(row) ==
    Leq(row.ULS_Util_pct, R(100)) /\ Leq(row.SLS_Util_pct, R(100))

\* df_passing of create_pdf_report: the rows shown when nothing is selected
\* are taken from these.
df_passing(selected_df) == SelectSeq(selected_df, PdfPassing)

\* What generate_pdf_download_button builds from the table: the pass marks
\* of the option labels and the (1-based) positions selected by default, and
\* the rows create_pdf_report takes as passing.
generate_pdf_download_button(df_display) ==
    LET n == Len(df_display)
        passing == SelectSeq([i \in 1..n |-> i], LAMBDA i : PdfPassing(df_display[i]))
    IN  [status |-> "ok",
         uls_status |-> [i \in 1..n |-> Leq(df_display[i].ULS_Util_pct, R(100))],
         sls_status |-> [i \in 1..n |-> Leq(df_display[i].SLS_Util_pct, R(100))],
         passing |-> passing,
         default_indices |-> Head5(passing, 5),
         df_passing |-> df_passing(df_display)]

-----------------------------------------------------------------------------
(* load_cases.generate_load_case_tables                                    *)

\* One row of uls_data: the moment of the case and the required modulus for
\* Aluminium, in cm3.
UlsTableRow(case, moment) ==
    [LoadCase |-> case, M_ULS |-> moment,
     RequiredZ |-> Div(Div(moment, R(material_props["Aluminium"].fy)), R(1000))]

\* What generate_load_case_tables computes.  Every operand of its divisions
\* is a Python number, so defl_limit = 0 raises ZeroDivisionError.
generate_load_case_tables(wp, bay, L, bl) ==
    LET p     == Mul(wp, Q(1, 1000))
        w     == Mul(p, R(bay))
        mwl   == Frac(<<w, R(L), R(L)>>, <<R(8)>>)
        mbl   == Frac(<<bl, R(bay), R(BARRIER_LENGTH)>>, <<R(2)>>)
        limit == IF L <= 3000 THEN Q(L, 200)
                 ELSE IF L < 7500 THEN Add(R(5), Q(L, 300))
                 ELSE Q(L, 250)
        E     == material_props["Aluminium"].E
    IN  IF limit = R(0) THEN [status |-> "ZeroDivisionError"]
        ELSE
        [status |-> "ok",
         uls_df |-> <<UlsTableRow("ULS 1", Add(Mul(Q(3, 2), mwl), Mul(Q(3, 4), mbl))),
                      UlsTableRow("ULS 2", Add(Mul(Q(3, 4), mwl), Mul(Q(3, 2), mbl))),
                      UlsTableRow("ULS 3", Mul(Q(3, 2), mwl)),
                      UlsTableRow("ULS 4", Mul(Q(3, 2), mbl))>>,
         defl_limit |-> limit,
         sls_df |-> <<[LoadCase |-> "SLS 1",
                       RequiredI |->
                           Div(Frac(<<R(5), w, R(L), R(L), R(L), R(L)>>,
                                    <<R(384), R(E), limit>>), R(10000))],
                      [LoadCase |-> "SLS 2",
                       RequiredI |->
                           Div(Mul(Frac(<<Mul(bl, R(bay)), R(BARRIER_LENGTH)>>,
                                        <<R(12), R(E), limit>>),
                                   Sub(Mul(Q(3, 4), R(L * L)),
                                       R(BARRIER_LENGTH * BARRIER_LENGTH))),
                               R(10000))]>>]

-----------------------------------------------------------------------------
(* The evaluation requests.                                                *)

\* Longest catalog considered.
MaxCatalogRows == 2

WindPressures == {R(1)}

BayWidths == {3000}

MullionLengths == {4000}

\* The "None" and "3" options of the barrier-load radio.
BarrierLoads == {R(0), R(3)}

\* The labels of the four ULS options of the sidebar.
RecognisedULS == {"ULS 1", "ULS 2", "ULS 3", "ULS 4"}

\* The labels of the two SLS options.
RecognisedSLS == {"SLS 1", "SLS 2"}

\* The four ULS options of the sidebar, and a label that is none of them.
ULS_cases == {"ULS 1", "ULS 2", "ULS 3", "ULS 4", "ULS 5"}

\* The two SLS options, and a label that is neither.
SLS_cases == {"SLS 1", "SLS 2", "SLS 3"}

Materials == {"Aluminium", "Steel"}

CatalogRow(supplier, name, material, reinf, depth, iyy, wyy) ==
    [Supplier |-> supplier, ProfileName |-> name, Material |-> material,
     Reinf |-> reinf, Depth |-> depth, Iyy |-> iyy, Wyy |-> wyy]

\* Rows a catalog is made of: Depth in mm, Iyy in mm4, Wyy in mm3.
RowPool ==
    {CatalogRow("Alpha", "A100", "Aluminium", FALSE, 100, 10000000, 75000),
     CatalogRow("Beta",  "B100R", "Aluminium", TRUE, 100, 10000000, 75000),
     CatalogRow("Alpha", "A140", "Aluminium", FALSE, 140, 40000000, 400000),
     CatalogRow("Alpha", "S90",  "Steel", FALSE, 90, 4000000, 0)}

Catalogs ==
    {df \in UNION {[1..n -> RowPool] : n \in 0..MaxCatalogRows} :
        \A i, j \in 1..Len(df) : i # j => df[i] # df[j]}

SupplierSelections == {{"Alpha"}, {"Alpha", "Beta"}}

\* custom_section_data of the "Manual Input" option: depth in mm, Z in cm3,
\* I in cm4.
CustomSections ==
    {EmptyDict,
     [type |-> "manual", name |-> "Custom Profile", depth |-> 100,
      Z |-> R(60), I |-> R(1500)]}

Init ==
    /\ wind_pressure \in WindPressures
    /\ bay_width \in BayWidths
    /\ mullion_length \in MullionLengths
    /\ selected_barrier_load \in BarrierLoads
    /\ ULS_case \in ULS_cases
    /\ SLS_case \in SLS_cases
    /\ df_selected \in Catalogs
    /\ plot_material \in Materials
    /\ selected_suppliers \in SupplierSelections
    /\ use_custom_section \in BOOLEAN
    /\ custom_section_data \in CustomSections
    /\ pc = "generate_plots"
    /\ plots = NotRun
    /\ load_case_tables = NotRun
    /\ section_database = NotRun
    /\ pdf_report = NotRun

\* The call of generate_plots.
GeneratePlots ==
    /\ pc = "generate_plots"
    /\ plots' = generate_plots(wind_pressure, bay_width, mullion_length,
                               selected_barrier_load, ULS_case, SLS_case,
                               df_selected, plot_material, selected_suppliers,
                               use_custom_section, custom_section_data)
    /\ pc' = "generate_load_case_tables"
    /\ UNCHANGED <<inputs, load_case_tables, section_database, pdf_report>>

\* The call of generate_load_case_tables.
GenerateLoadCaseTables ==
    /\ pc = "generate_load_case_tables"
    /\ load_case_tables' = generate_load_case_tables(wind_pressure, bay_width,
                               mullion_length, selected_barrier_load)
    /\ pc' = "generate_section_database"
    /\ UNCHANGED <<inputs, plots, section_database, pdf_report>>

\* GenerateSectionDatabase with the custom row concatenated to the catalog
\* itself instead of to the filtered copy.
GenerateSectionDatabase_ConcatInPlace ==
    /\ pc = "generate_section_database"
    /\ df_selected' =
           IF use_custom_section /\ Truthy(custom_section_data)
           THEN Append(df_selected,
                       CatalogRow("Custom", custom_section_data.name, plot_material,
                                  TRUE, custom_section_data.depth, 0, 0))
           ELSE df_selected
    /\ section_database' =
           generate_section_database(df_selected, plot_material,
               selected_suppliers, custom_section_data, use_custom_section,
               wind_pressure, bay_width, mullion_length, selected_barrier_load,
               SLS_case, defl_limit(mullion_length),
               Z_req_cm3(ULS_case, wind_pressure, bay_width, mullion_length,
                         selected_barrier_load, plot_material))
    /\ pc' = "generate_pdf_download_button"
    /\ UNCHANGED <<wind_pressure, bay_width, mullion_length,
                   selected_barrier_load, ULS_case, SLS_case, plot_material,
                   selected_suppliers, use_custom_section, custom_section_data,
                   plots, load_case_tables, pdf_report>>

\* The call of generate_section_database, with the defl_limit and Z_req_cm3
\* that generate_plots computes for the same request (for a material outside
\* material_props there is no Z_req_cm3, and the call fails whatever it is
\* given).
GenerateSectionDatabase ==
    /\ pc = "generate_section_database"
    /\ section_database' =
           generate_section_database(df_selected, plot_material,
               selected_suppliers, custom_section_data, use_custom_section,
               wind_pressure, bay_width, mullion_length, selected_barrier_load,
               SLS_case, defl_limit(mullion_length),
               Z_req_cm3(ULS_case, wind_pressure, bay_width, mullion_length,
                         selected_barrier_load, plot_material))
    /\ pc' = "generate_pdf_download_button"
    /\ UNCHANGED <<inputs, plots, load_case_tables, pdf_report>>

\* The call of generate_pdf_download_button on the table of
\* generate_section_database; it is not reached when that call has raised.
GeneratePdfDownloadButton ==
    /\ pc = "generate_pdf_download_button"
    /\ pdf_report' =
           IF section_database.status = "ok"
           THEN generate_pdf_download_button(section_database.df_display)
           ELSE [status |-> "not_reached"]
    /\ pc' = "done"
    /\ UNCHANGED <<inputs, plots, load_case_tables, section_database>>

Next ==
    \/ GeneratePlots
    \/ GenerateLoadCaseTables
    \/ GenerateSectionDatabase
    \/ GeneratePdfDownloadButton

Spec == Init /\ [][Next]_vars

-----------------------------------------------------------------------------
(* Requests made to the functions directly, with arguments outside the     *)
(* ranges of the sidebar widgets, and run again by a script rerun.         *)

\* Spans: negative, zero, below 1270 mm (where 0.75 L^2 < 1100^2), the two
\* branch boundaries 3000 and 7500 with a span on either side, spans at
\* which some sections pass and others fail, and the longest of the widget.
CallSpans == {-3000, 0, 1000, 2880, 3000, 3500, 4000, 5000, 6000, 7500, 8000, 12000}

\* A wind pressure of 0.7 kPa.
CallWindPressures == {Q(7, 10)}

\* The two keys of material_props and a name that is not a key.
CallMaterials == {"Aluminium", "Steel", "Timber"}

\* No catalog, a catalog of two sections with equal properties, and a
\* catalog with a section whose Iyy is 0 (its Wyy is not).
CallCatalogs ==
    {<<>>,
     <<CatalogRow("Alpha", "A100", "Aluminium", FALSE, 100, 10000000, 75000),
       CatalogRow("Beta",  "B100R", "Aluminium", TRUE, 100, 10000000, 75000)>>,
     <<CatalogRow("Alpha", "A100", "Aluminium", FALSE, 100, 10000000, 75000),
       CatalogRow("Alpha", "A60", "Aluminium", FALSE, 60, 0, 50000)>>}

\* <<use_custom_section, custom_section_data>>: none, the dict of the
\* "Manual Input" option, a dict in which the caller also names the
\* supplier and the reinforcement flag, and a manual section whose modulus
\* of 39.36 cm3 is just short of the 39.375 cm3 that a span of 4000 mm
\* requires under wind alone.
CallCustomSections ==
    {<<FALSE, EmptyDict>>,
     <<TRUE, [type |-> "manual", name |-> "Custom Profile", depth |-> 100,
              Z |-> R(60), I |-> R(1500)]>>,
     <<TRUE, [type |-> "dxf", name |-> "DXF Profile", depth |-> 150,
              Z |-> R(90), I |-> R(2000),
              supplier |-> "Acme", reinforced |-> FALSE]>>,
     <<TRUE, [type |-> "manual", name |-> "Custom Tight", depth |-> 120,
              Z |-> Q(3936, 100), I |-> R(3000)]>>}

InitCalls ==
    /\ wind_pressure \in CallWindPressures
    /\ bay_width \in BayWidths
    /\ mullion_length \in CallSpans
    /\ selected_barrier_load \in BarrierLoads
    /\ ULS_case \in RecognisedULS
    /\ SLS_case \in RecognisedSLS
    /\ df_selected \in CallCatalogs
    /\ plot_material \in CallMaterials
    /\ selected_suppliers = {"Alpha", "Beta"}
    /\ \E c \in CallCustomSections :
           use_custom_section = c[1] /\ custom_section_data = c[2]
    /\ pc = "generate_plots"
    /\ plots = NotRun
    /\ load_case_tables = NotRun
    /\ section_database = NotRun
    /\ pdf_report = NotRun

\* A rerun of the script with the widgets unchanged: the four calls are
\* made again and their results are bound again.
Rerun ==
    /\ pc = "done"
    /\ pc' = "generate_plots"
    /\ UNCHANGED <<inputs, plots, load_case_tables, section_database, pdf_report>>

NextCalls == Next \/ Rerun

SpecCalls == InitCalls /\ [][NextCalls]_vars

-----------------------------------------------------------------------------
(* Properties.                                                             *)

\* "A custom section is supplied": the flag is set and the data is filled.
CustomSupplied == use_custom_section /\ Truthy(custom_section_data)

\* The positions of df_selected that the material / supplier filter keeps.
Matching ==
    {i \in 1..Len(df_selected) :
        /\ df_selected[i].Material = plot_material
        /\ df_selected[i].Supplier \in selected_suppliers}

\* C1: in every ranked table of generate_section_database the rows are a
\* passing segment (max utilisation <= 1.0) followed by a failing segment
\* (max utilisation > 1.0): the row at position i is passing exactly when i
\* is within the number of passing rows, which is also what row_style takes
\* as is_passing.
C1_PassingBeforeFailing ==
    section_database.status = "ok" =>
        LET t == section_database.df_sorted
            n == section_database.pass_count
        IN  \A i \in 1..Len(t) :
                /\ i <= n <=> Leq(t[i].Max_Utilisation, R(1))
                /\ i > n  <=> Gt(t[i].Max_Utilisation, R(1))
                /\ section_database.styles[i].is_passing
                       <=> Leq(t[i].Max_Utilisation, R(1))

\* C1 witness: a ranked table with both segments filled, whose failing row
\* came before a passing row in the candidate list.
C1_Witness ==
    /\ section_database.status = "ok"
    /\ section_database.pass_count >= 1
    /\ Len(section_database.df_sorted) > section_database.pass_count
    /\ Gt(section_database.df_mat[1].Max_Utilisation, R(1))

\* The documented factors of the four ULS combinations, on M_WL and M_BL.
DocumentedFactors ==
    [c \in RecognisedULS |->
        CASE c = "ULS 1" -> [WL |-> Q(3, 2), BL |-> Q(3, 4)]
          [] c = "ULS 2" -> [WL |-> Q(3, 4), BL |-> Q(3, 2)]
          [] c = "ULS 3" -> [WL |-> Q(3, 2), BL |-> R(0)]
          [] c = "ULS 4" -> [WL |-> R(0), BL |-> Q(3, 2)]]

\* The documented moment of a case for the request:
\* M_WL = (p_w * 1e-3 * bay) * L^2 / 8, M_BL = (w_b * bay) * 1100 / 2.
DocumentedMoment(c) ==
    LET wl == Div(Mul(Mul(Mul(wind_pressure, Q(1, 1000)), R(bay_width)),
                      R(mullion_length * mullion_length)), R(8))
        bl == Div(Mul(Mul(selected_barrier_load, R(bay_width)), R(1100)), R(2))
    IN  Add(Mul(DocumentedFactors[c].WL, wl), Mul(DocumentedFactors[c].BL, bl))

C3_UnknownCaseFails ==
    (ULS_case \notin RecognisedULS \/ SLS_case \notin RecognisedSLS) =>
        /\ plots.status # "ok"
        /\ (SLS_case \notin RecognisedSLS => section_database.status # "ok")

\* C4: when the filtered catalog is empty and no custom section is supplied,
\* both generate_plots and generate_section_database fail and produce no
\* output.
C4_NoSectionsAvailable ==
    (Matching = {} /\ ~CustomSupplied) =>
        /\ plots.status \in {"not_run", "ValueError"}
        /\ section_database.status \in {"not_run", "ValueError"}

\* C5: when the filtered catalog is empty but a custom section is supplied,
\* generate_plots does not fail and evaluates exactly one candidate, the
\* custom one.
C5_CustomAloneIsEvaluated ==
    (Matching = {} /\ CustomSupplied /\ plots.status # "not_run") =>
        /\ plots.status = "ok"
        /\ Len(plots.candidates) = 1
        /\ plots.candidates[1].ProfileName = custom_section_data.name

\* C6: a candidate with Wyy = 0 is in no ranked table of
\* generate_section_database and at no point of the 3D plot of
\* generate_plots.
C6_ZeroModulusExcluded ==
    /\ section_database.status = "ok" =>
           \A i \in 1..Len(section_database.df_sorted) :
               section_database.df_sorted[i].Wyy # R(0)
    /\ plots.status = "ok" =>
           \A k \in 1..Len(plots.points_3d) :
               plots.candidates[plots.points_3d[k].source].Wyy # R(0)

\* C7: for every request with recognised load cases, a candidate with
\* Wyy = 0 is kept in the data of the ULS plot and is marked there as
\* failing.
C7_ZeroModulusShownFailing ==
    (plots.status = "ok" /\ ULS_case \in RecognisedULS
                         /\ SLS_case \in RecognisedSLS) =>
        /\ Len(plots.uls_passed) = Len(plots.candidates)
        /\ \A i \in Matching :
               df_selected[i].Wyy = 0 =>
                   \E k \in 1..Len(plots.candidates) :
                       /\ plots.candidates[k].ProfileName = df_selected[i].ProfileName
                       /\ plots.candidates[k].Wyy = R(0)
        /\ \A k \in 1..Len(plots.candidates) :
               plots.candidates[k].Wyy = R(0) =>
                   /\ ~plots.uls_passed[k]
                   /\ plots.uls_colors[k] = "darkred"

\* The two utilisation ratios of candidate k of generate_plots, from the
\* values it returns.
Utilisations(k) ==
    [uls_util |-> Div(plots.Z_req_cm3, plots.candidates[k].available_cm3),
     sls_util |-> Div(plots.defl_values[k], plots.defl_limit)]

\* The candidates of generate_plots that pass both checks.
PassBoth ==
    {k \in 1..Len(plots.candidates) :
        /\ Leq(Utilisations(k).uls_util, R(1))
        /\ Leq(Utilisations(k).sls_util, R(1))}

\* Candidate k is at least as good a recommendation as candidate j: less
\* deep, or as deep and further from the origin of the utilisation plane,
\* or equal in both and not later in the candidate order.
Preferred(k, j) ==
    \/ plots.candidates[k].Depth < plots.candidates[j].Depth
    \/ /\ plots.candidates[k].Depth = plots.candidates[j].Depth
       /\ \/ DistGt(Utilisations(k), Utilisations(j))
          \/ ~DistGt(Utilisations(j), Utilisations(k)) /\ k <= j

\* C8: the recommendation of generate_plots passes both checks, has the
\* least depth of all candidates passing both, among those of that depth the
\* largest sqrt(ULS_utilisation^2 + SLS_utilisation^2), and among those tied
\* on both it is the earliest candidate.
C8_Recommendation ==
    (plots.status = "ok" /\ plots.rec_index # 0) =>
        LET pt == plots.points_3d[plots.rec_index]
            k  == pt.source
        IN  /\ k \in PassBoth
            /\ \A j \in PassBoth : Preferred(k, j)
            /\ plots.recommended_text =
                   [text |-> "Recommended Profile",
                    supplier |-> plots.candidates[k].Supplier,
                    profile |-> plots.candidates[k].ProfileName]

\* C8 witness: the recommended candidate is not the first candidate that
\* passes both checks; an earlier one has the same depth but is nearer the
\* origin, and another pair is tied on both depth and distance.
C8_Witness ==
    /\ plots.status = "ok"
    /\ plots.rec_index # 0
    /\ LET k == plots.points_3d[plots.rec_index].source
       IN  /\ \E j \in PassBoth :
                  /\ j < k
                  /\ plots.candidates[j].Depth = plots.candidates[k].Depth
                  /\ DistGt(Utilisations(k), Utilisations(j))
           /\ \E j \in PassBoth : plots.candidates[j].Depth > plots.candidates[k].Depth

\* C8 witness of the last tie-break: two candidates are tied on depth and on
\* distance, and the earlier is recommended.
C8_TieWitness ==
    /\ plots.status = "ok"
    /\ plots.rec_index # 0
    /\ LET k == plots.points_3d[plots.rec_index].source
       IN  \E j \in PassBoth :
               /\ j > k
               /\ plots.candidates[j].Depth = plots.candidates[k].Depth
               /\ ~DistGt(Utilisations(k), Utilisations(j))
               /\ plots.candidates[j].ProfileName # plots.candidates[k].ProfileName

\* The candidate list of the request as the filter stage defines it: the
\* kept catalog rows, then the custom section when one is supplied.
NumCandidates == Cardinality(Matching) + (IF CustomSupplied THEN 1 ELSE 0)

\* Whether candidate number k of the request passes both checks, from the
\* request alone.
RequestPasses(Wyy, Iyy) ==
    LET E == material_props[plot_material].E
        u == Div(Z_req_cm3(ULS_case, wind_pressure, bay_width, mullion_length,
                           selected_barrier_load, plot_material),
                 Div(Wyy, R(1000)))
        v == Div(defl_total(SLS_case, wind_pressure, bay_width, mullion_length,
                            selected_barrier_load, E, Iyy),
                 defl_limit(mullion_length))
    IN  Leq(u, R(1)) /\ Leq(v, R(1))

NoCandidatePasses ==
    /\ \A i \in Matching :
           ~RequestPasses(R(df_selected[i].Wyy), R(df_selected[i].Iyy))
    /\ CustomSupplied =>
           ~RequestPasses(Mul(custom_section_data.Z, R(1000)),
                          Mul(custom_section_data.I, R(10000)))

\* C9: when there are candidates and none passes both checks,
\* generate_plots completes without raising and its recommendation is the
\* "no suitable profile" state.
C9_NoneRecommended ==
    (NumCandidates > 0 /\ NoCandidatePasses /\ plots.status # "not_run") =>
        /\ plots.status = "ok"
        /\ plots.rec_index = 0
        /\ plots.recommended_text = NoRecommendation

\* The position in df_selected of the k-th row that the filter keeps.
KthMatching(k) ==
    CHOOSE i \in Matching : Cardinality({j \in Matching : j <= i}) = k

\* Whether the candidate c (of either function) is the catalog row r.
SameSection(c, r) ==
    /\ c.Supplier = r.Supplier
    /\ c.ProfileName = r.ProfileName
    /\ c.Reinf = r.Reinf
    /\ c.Depth = r.Depth
    /\ c.Iyy = R(r.Iyy)
    /\ c.Wyy = R(r.Wyy)

\* Whether the candidate c is the synthetic custom candidate of the request.
IsCustomCandidate(c) ==
    /\ Truthy(custom_section_data)
    /\ c.Supplier = "Custom"
    /\ c.ProfileName = custom_section_data.name
    /\ c.Depth = custom_section_data.depth
    /\ c.Wyy = Mul(custom_section_data.Z, R(1000))
    /\ c.Iyy = Mul(custom_section_data.I, R(10000))

\* The candidate list cands is the kept catalog rows in their catalog order,
\* followed by the custom candidate exactly when one is supplied.
WellPlaced(cands) ==
    /\ Len(cands) = NumCandidates
    /\ \A k \in 1..Cardinality(Matching) :
           SameSection(cands[k], df_selected[KthMatching(k)])
    /\ CustomSupplied => IsCustomCandidate(cands[Len(cands)])

\* C10: the candidate list of generate_plots and that of
\* generate_section_database are both the filtered catalog rows in their
\* original order followed, when and only when a custom section is
\* supplied, by one custom candidate in the last position.
C10_CustomLast ==
    /\ plots.status = "ok" => WellPlaced(plots.candidates)
    /\ section_database.status = "ok" => WellPlaced(section_database.df_mat)

\* C10 witness: both functions have built their list for a request with two
\* kept catalog rows and a custom section.
C10_Witness ==
    /\ plots.status = "ok"
    /\ section_database.status = "ok"
    /\ CustomSupplied
    /\ Cardinality(Matching) = 2
    /\ Len(plots.candidates) = 3
    /\ Len(section_database.df_mat) = 3

\* C10 witness of the other case: custom data is present but the flag is
\* off, and no custom candidate is in the lists.
C10_WitnessNoCustom ==
    /\ plots.status = "ok"
    /\ section_database.status = "ok"
    /\ ~use_custom_section
    /\ Truthy(custom_section_data)
    /\ Len(plots.candidates) = Cardinality(Matching)

-----------------------------------------------------------------------------
(* Properties of the deflection limit and of the requirements.             *)

\* The limit as the specification words it: L/200 for L <= 3000,
\* 5 + L/300 for 3000 < L < 7500, L/250 for L >= 7500.
SpecifiedLimit(L) ==
    IF L <= 3000 THEN Q(L, 200)
    ELSE IF L < 7500 THEN Add(R(5), Q(L, 300))
    ELSE Q(L, 250)

\* C11: for every span L > 0 the deflection limit returned by
\* generate_plots and the one used by generate_load_case_tables are both the
\* specified function of L alone, and both agree with the documented
\* delta_lim, the boundaries L = 3000 and L = 7500 included.
C11_DeflectionLimit ==
    mullion_length > 0 =>
        /\ SpecifiedLimit(mullion_length) = delta_lim(mullion_length)
        /\ plots.status = "ok" =>
               plots.defl_limit = SpecifiedLimit(mullion_length)
        /\ load_case_tables.status = "ok" =>
               load_case_tables.defl_limit = SpecifiedLimit(mullion_length)

\* C11 witness: both functions have computed the limit at the boundary
\* L = 7500, where the code and the documentation take different branches.
C11_Witness ==
    /\ mullion_length = 7500
    /\ plots.status = "ok"
    /\ load_case_tables.status = "ok"
    /\ plots.defl_limit = R(30)

\* C12: the limit returned for a span is at least the limit of every
\* shorter positive span and exceeds it by no more than the difference of
\* the spans over 200 (the steepest branch), so it has no jump; at L = 3000
\* and at L = 7500 it is the value 5 + L/300 of the adjacent branch.
C12_LimitMonotoneContinuous ==
    (plots.status = "ok" /\ mullion_length > 0) =>
        /\ \A L1 \in CallSpans :
               (0 < L1 /\ L1 <= mullion_length) =>
                   /\ Leq(defl_limit(L1), plots.defl_limit)
                   /\ Leq(Sub(plots.defl_limit, defl_limit(L1)),
                          Q(mullion_length - L1, 200))
        /\ mullion_length \in {3000, 7500} =>
               plots.defl_limit = Add(R(5), Q(mullion_length, 300))

\* C12 witness: the limit of a span in the last branch has been returned,
\* and spans of the other two branches lie below it.
C12_Witness ==
    /\ plots.status = "ok"
    /\ mullion_length = 8000
    /\ \E L1, L2 \in CallSpans : 0 < L1 /\ L1 <= 3000 /\ 3000 < L2 /\ L2 < 7500

\* C13: for every request with positive wind pressure, bay width and span
\* and a barrier load >= 0, and every ULS and SLS case, the required section
\* modulus, the required second moment of area and the deflection limit are
\* all >= 0, in generate_plots and in the load-case tables.
C13_RequirementsNonNegative ==
    (/\ Gt(wind_pressure, R(0)) /\ bay_width > 0 /\ mullion_length > 0
     /\ Geq(selected_barrier_load, R(0))) =>
        /\ plots.status = "ok" =>
               /\ Geq(plots.Z_req_cm3, R(0))
               /\ Geq(plots.I_req_cm4, R(0))
               /\ Geq(plots.defl_limit, R(0))
        /\ load_case_tables.status = "ok" =>
               /\ Geq(load_case_tables.defl_limit, R(0))
               /\ \A k \in 1..4 :
                      Geq(load_case_tables.uls_df[k].RequiredZ, R(0))
               /\ \A k \in 1..2 :
                      Geq(load_case_tables.sls_df[k].RequiredI, R(0))

-----------------------------------------------------------------------------
(* Properties of repeated and of degenerate evaluations.                   *)

C15_ZeroLimitIsInfinite ==
    defl_limit(mullion_length) = R(0) =>
        /\ plots.status # "ZeroDivisionError"
        /\ load_case_tables.status # "ZeroDivisionError"
        /\ section_database.status = "ok" =>
               \A i \in 1..Len(section_database.df_sorted) :
                   /\ section_database.df_sorted[i].SLS_Utilisation = Inf
                   /\ i > section_database.pass_count

\* C16: an evaluation with a span L <= 0 fails: none of the three
\* functions returns a deflection limit or results.
C16_InvalidSpan ==
    mullion_length <= 0 =>
        /\ plots.status # "ok"
        /\ load_case_tables.status # "ok"
        /\ section_database.status # "ok"

-----------------------------------------------------------------------------
(* Properties of the required modulus and of the candidates.               *)

\* The request of the first example: Aluminium, 1.0 kPa, bay 3000 mm,
\* span 4000 mm, no barrier load, ULS 1.
ExampleOne ==
    /\ plot_material = "Aluminium"
    /\ wind_pressure = R(1)
    /\ bay_width = 3000
    /\ mullion_length = 4000
    /\ selected_barrier_load = R(0)
    /\ StartsWith(ULS_case, "ULS 1")

\* C18: the required section modulus returned by generate_plots is the
\* design moment over the yield strength of the selected material (160 for
\* Aluminium, 275 for Steel), over 1000 to give cm3; for the first example
\* M_WL = 6,000,000 Nmm, M_ULS = 9,000,000 Nmm and Z_req = 56.25 cm3, in
\* generate_plots and in the ULS 1 row of the load-case table.
C18_RequiredModulus ==
    /\ plots.status = "ok" =>
           /\ plots.Z_req_cm3 =
                  Div(Div(plots.M_ULS,
                          R(IF plot_material = "Aluminium" THEN 160 ELSE 275)),
                      R(1000))
           /\ ExampleOne =>
                  /\ M_WL(wind_pressure, bay_width, mullion_length) = R(6000000)
                  /\ plots.M_ULS = R(9000000)
                  /\ plots.Z_req_cm3 = Q(5625, 100)
    /\ (load_case_tables.status = "ok" /\ ExampleOne) =>
           /\ load_case_tables.uls_df[1].M_ULS = R(9000000)
           /\ load_case_tables.uls_df[1].RequiredZ = Q(5625, 100)

\* C18 witness: generate_plots and generate_load_case_tables have both
\* evaluated the first example.
C18_Witness ==
    /\ ExampleOne
    /\ plots.status = "ok"
    /\ load_case_tables.status = "ok"
    /\ plots.Z_req_cm3 = Q(225, 4)

\* C18 witness for the other material: a modulus was computed for Steel.
C18_WitnessSteel ==
    /\ plot_material = "Steel"
    /\ plots.status = "ok"
    /\ Gt(plots.Z_req_cm3, R(0))

\* The supplier and the reinforcement flag the custom-section data asks
\* for: the ones it gives, "Custom" and true where it gives none.
GivenSupplier ==
    IF "supplier" \in DOMAIN custom_section_data
    THEN custom_section_data.supplier ELSE "Custom"

GivenReinforced ==
    IF "reinforced" \in DOMAIN custom_section_data
    THEN custom_section_data.reinforced ELSE TRUE

\* Whether c is the custom candidate with the properties, the supplier and
\* the reinforcement flag the custom-section data asks for.
AsGivenOrDefaulted(c) ==
    /\ c.Iyy = Mul(custom_section_data.I, R(10000))
    /\ c.Wyy = Mul(custom_section_data.Z, R(1000))
    /\ c.Depth = custom_section_data.depth
    /\ c.Supplier = GivenSupplier
    /\ c.Reinf = GivenReinforced

\* C19: the custom candidate of generate_plots and the one of
\* generate_section_database have Iyy = I * 10000 and Wyy = Z * 1000, and
\* the supplier and reinforcement flag of the custom-section data when it
\* gives them, "Custom" and true only when it does not.
C19_CustomAsGiven ==
    CustomSupplied =>
        /\ plots.status = "ok" =>
               AsGivenOrDefaulted(plots.candidates[Len(plots.candidates)])
        /\ section_database.status = "ok" =>
               AsGivenOrDefaulted(
                   section_database.df_mat[Len(section_database.df_mat)])

\* The candidates that come from the catalog: all but the custom candidate.
CatalogPart(cands) ==
    SubSeq(cands, 1, Len(cands) - (IF CustomSupplied THEN 1 ELSE 0))

\* Whether part is exactly the catalog rows that match the material and the
\* allowed suppliers: some strictly increasing map of its positions onto the
\* matching positions of df_selected pairs equal sections.
ExactlyTheMatchingRows(part) ==
    \E f \in [1..Len(part) -> 1..Len(df_selected)] :
        /\ \A a, b \in 1..Len(part) : a < b => f[a] < f[b]
        /\ {f[k] : k \in 1..Len(part)} =
               {i \in 1..Len(df_selected) :
                   /\ df_selected[i].Material = plot_material
                   /\ df_selected[i].Supplier \in selected_suppliers}
        /\ \A k \in 1..Len(part) : SameSection(part[k], df_selected[f[k]])

\* C20: the catalog rows among the candidates of generate_plots and of
\* generate_section_database are exactly the rows of the catalog whose
\* material is the material filter and whose supplier is allowed, in their
\* relative order: none dropped, duplicated or reordered.
C20_FilterExact ==
    /\ plots.status = "ok" =>
           ExactlyTheMatchingRows(CatalogPart(plots.candidates))
    /\ section_database.status = "ok" =>
           /\ ExactlyTheMatchingRows(CatalogPart(section_database.df_mat))
           /\ \A k \in 1..Len(section_database.df_mat) :
                  section_database.df_mat[k].Material = plot_material

\* C20 witness: the filter has dropped the first row of a catalog (its
\* supplier or material does not match) and kept the second.
C20_Witness ==
    /\ Len(df_selected) = 2
    /\ Matching = {2}
    /\ plots.status = "ok"
    /\ section_database.status = "ok"
    /\ Len(CatalogPart(plots.candidates)) = 1
    /\ Len(CatalogPart(section_database.df_mat)) = 1

\* C20 witness of the other case: both rows of a catalog are kept, in the
\* order of the catalog.
C20_WitnessBoth ==
    /\ Matching = {1, 2}
    /\ plots.status = "ok"
    /\ plots.candidates[1].ProfileName = df_selected[1].ProfileName
    /\ plots.candidates[2].ProfileName = df_selected[2].ProfileName

-----------------------------------------------------------------------------
(* Properties of the ranked table.                                         *)

\* The positions of the ranked table that hold the catalog row r.
PositionsOf(r) ==
    {k \in 1..Len(section_database.df_sorted) :
        SameSection(section_database.df_sorted[k], r)}

\* C21: once generate_section_database has been called for a material of
\* the registry, every catalog row kept by the filter whose Wyy is not 0
\* stands at exactly one position of the ranked table, whatever its
\* utilisations are (a row with Iyy = 0 included).
C21_NoCandidateLost ==
    (section_database.status # "not_run" /\ plot_material \in DOMAIN material_props) =>
        \A i \in Matching :
            df_selected[i].Wyy # 0 =>
                /\ section_database.status = "ok"
                /\ Cardinality(PositionsOf(df_selected[i])) = 1

\* The part of C21 that the code keeps: every table that is produced holds
\* each kept row with Wyy # 0 exactly once.
C21_NoneLostFromTables ==
    section_database.status = "ok" =>
        \A i \in Matching :
            df_selected[i].Wyy # 0 =>
                Cardinality(PositionsOf(df_selected[i])) = 1

-----------------------------------------------------------------------------
(* Properties of the inputs.                                               *)

\* C22: no step of an evaluation changes the section catalog (rows, columns
\* and order) or any other input, whether the call returns or raises and
\* whether or not a custom section is appended; the material registry has
\* the values of config.py throughout.
C22_CatalogAndRegistryUnchanged ==
    [][/\ df_selected' = df_selected
       /\ inputs' = inputs
       /\ material_props = [Aluminium |-> [fy |-> 160, E |-> 70000],
                            Steel     |-> [fy |-> 275, E |-> 210000]]]_vars

\* C22 witness: both functions have returned for a request whose custom
\* section was appended to the candidates, and the catalog holds none.
C22_Witness ==
    /\ pc = "done"
    /\ CustomSupplied
    /\ plots.status = "ok"
    /\ section_database.status = "ok"
    /\ Len(plots.candidates) = Len(df_selected) + 1
    /\ Len(section_database.df_mat) = Len(df_selected) + 1
    /\ \A i \in 1..Len(df_selected) : df_selected[i].Supplier # "Custom"

\* C22 witness of the other case: generate_plots has raised and
\* generate_section_database has returned.
C22_WitnessRaised ==
    /\ pc = "done"
    /\ plots.status = "ValueError"
    /\ section_database.status = "ok"
    /\ Len(df_selected) > 0

\* The position in df_mat (the candidates before the ranking) of the row at
\* position k of the ranked table.
CandidateIndex(k) ==
    CHOOSE i \in 1..Len(section_database.df_mat) :
        section_database.df_mat[i] = section_database.df_sorted[k]

\* C23: in every ranked table the SLS utilisation does not increase from
\* one row of the passing segment to a later one, and the max utilisation
\* does not decrease from one row of the failing segment to a later one.
C23_SegmentsSorted ==
    section_database.status = "ok" =>
        LET t == section_database.df_sorted
            p == section_database.pass_count
        IN  /\ \A i, j \in 1..p :
                   i < j => Geq(t[i].SLS_Utilisation, t[j].SLS_Utilisation)
            /\ \A i, j \in (p + 1)..Len(t) :
                   i < j => Leq(t[i].Max_Utilisation, t[j].Max_Utilisation)

\* C23 witness: the passing segment holds two rows of different SLS
\* utilisation that the sort has put the other way round than the
\* candidates were.
C23_Witness ==
    /\ section_database.status = "ok"
    /\ section_database.pass_count >= 2
    /\ Gt(section_database.df_sorted[1].SLS_Utilisation,
          section_database.df_sorted[2].SLS_Utilisation)
    /\ CandidateIndex(1) > CandidateIndex(2)

\* C23 witness for the failing segment: it holds two rows of different max
\* utilisation.
C23_WitnessFailing ==
    /\ section_database.status = "ok"
    /\ Len(section_database.df_sorted) >= section_database.pass_count + 2
    /\ LET k == section_database.pass_count + 1
       IN  Lt(section_database.df_sorted[k].Max_Utilisation,
              section_database.df_sorted[k + 1].Max_Utilisation)

-----------------------------------------------------------------------------
(* Properties of the deflection and of the pass flags.                     *)

\* The deflection of a section of second moment of area Iyy (mm4) under the
\* request, for the SLS case SLS 1 or SLS 2:
\*   SLS 1: 5 w L^4 / (384 E Iyy), w = wind pressure * 0.001 * bay
\*   SLS 2: (F_b * 1100 / (12 E Iyy)) * (0.75 L^2 - 1100^2), F_b = barrier * bay
CaseDeflection(Iyy) ==
    LET E == IF plot_material = "Aluminium" THEN 70000 ELSE 210000
        L == mullion_length
    IN  IF StartsWith(SLS_case, "SLS 1")
        THEN Frac(<<R(5), wind_pressure, Q(bay_width, 1000),
                    R(L), R(L), R(L), R(L)>>,
                  <<R(384), R(E), Iyy>>)
        ELSE Mul(Frac(<<selected_barrier_load, R(bay_width), R(1100)>>,
                      <<R(12), R(E), Iyy>>),
                 Sub(Q(3 * L * L, 4), R(1100 * 1100)))

C24_WitnessWind ==
    /\ StartsWith(SLS_case, "SLS 1")
    /\ plots.status = "ok"
    /\ section_database.status = "ok"
    /\ \E i, j \in 1..Len(section_database.df_mat) :
           /\ Leq(section_database.df_mat[i].Deflection, plots.defl_limit)
           /\ Gt(section_database.df_mat[j].Deflection, plots.defl_limit)

\* C25: for every candidate with Wyy > 0 the ULS pass flag of the ULS plot
\* (and so its colour) holds exactly when Z_req_cm3 / available_cm3 <= 1,
\* which is also exactly when the ULS utilisation of the candidate's row in
\* the table is <= 1; every point of the 3D plot has a flagged candidate.
C25_UlsFlagAgreesWithUtilisation ==
    plots.status = "ok" =>
        /\ \A i \in 1..Len(plots.candidates) :
               Gt(plots.candidates[i].Wyy, R(0)) =>
                   LET ratio == Div(plots.Z_req_cm3,
                                    Div(plots.candidates[i].Wyy, R(1000)))
                   IN  /\ plots.uls_passed[i] <=> Leq(ratio, R(1))
                       /\ (plots.uls_colors[i] # "darkred") <=> Leq(ratio, R(1))
                       /\ section_database.status = "ok" =>
                              /\ section_database.df_mat[i].ULS_Utilisation = ratio
                              /\ plots.uls_passed[i] <=>
                                     Leq(section_database.df_mat[i].ULS_Utilisation, R(1))
        /\ \A k \in 1..Len(plots.points_3d) :
               /\ plots.uls_passed[plots.points_3d[k].source]
               /\ Leq(plots.points_3d[k].uls_util, R(1))

\* C25 witness: among the candidates with Wyy > 0 of one request one has
\* the flag and another has not, and the table has been computed.
C25_Witness ==
    /\ plots.status = "ok"
    /\ section_database.status = "ok"
    /\ \E i, j \in 1..Len(plots.candidates) :
           /\ Gt(plots.candidates[i].Wyy, R(0))
           /\ Gt(plots.candidates[j].Wyy, R(0))
           /\ plots.uls_passed[i]
           /\ ~plots.uls_passed[j]

\* The candidates (by position in the candidate list) of the 3D plot.
PassBoth3D == {plots.points_3d[k].source : k \in 1..Len(plots.points_3d)}

\* The candidates (by position) whose row stands in the passing segment.
PassingSegment ==
    {i \in 1..Len(section_database.df_mat) :
        Leq(section_database.df_mat[i].Max_Utilisation, R(1))}

\* C26: when both functions return for a request, the candidates in the
\* passing segment of the ranked table are exactly the candidates of the 3D
\* plot, and a recommended candidate is one of the passing segment.
C26_PassingSetsEqual ==
    (plots.status = "ok" /\ section_database.status = "ok") =>
        /\ PassingSegment = PassBoth3D
        /\ plots.rec_index # 0 =>
               plots.points_3d[plots.rec_index].source \in PassingSegment

\* The part of C26 that the code keeps: the two sets agree on the
\* candidates with Wyy # 0, and a recommended candidate is one of the
\* passing segment.
C26_EqualOnNonZeroModulus ==
    (plots.status = "ok" /\ section_database.status = "ok") =>
        /\ {i \in PassingSegment : section_database.df_mat[i].Wyy # R(0)} = PassBoth3D
        /\ plots.rec_index # 0 =>
               plots.points_3d[plots.rec_index].source \in PassingSegment

-----------------------------------------------------------------------------
(* Properties of the load-case tables against the evaluator.               *)

\* The rows of the two load-case tables agree with generate_plots on the
\* chosen cases: the row of the chosen ULS case has its Z_req_cm3 and the
\* row of the chosen SLS case has its I_req_cm4.
TablesAgreeWithPlots ==
    /\ \A k \in 1..Len(load_case_tables.uls_df) :
           StartsWith(ULS_case, load_case_tables.uls_df[k].LoadCase) =>
               load_case_tables.uls_df[k].RequiredZ = plots.Z_req_cm3
    /\ \A k \in 1..Len(load_case_tables.sls_df) :
           StartsWith(SLS_case, load_case_tables.sls_df[k].LoadCase) =>
               load_case_tables.sls_df[k].RequiredI = plots.I_req_cm4

\* C27: for every material of the registry, the required section modulus
\* of the chosen ULS case and the required second moment of area of the
\* chosen SLS case in the load-case tables equal the Z_req and I_req of
\* generate_plots for the selected material.
C27_TablesMatchEvaluator ==
    (plots.status = "ok" /\ load_case_tables.status = "ok") =>
        TablesAgreeWithPlots

\* The part of C27 that the code keeps: the tables agree with
\* generate_plots when the selected material is Aluminium.
C27_TablesMatchForAluminium ==
    (/\ plots.status = "ok" /\ load_case_tables.status = "ok"
     /\ plot_material = "Aluminium") =>
        TablesAgreeWithPlots

-----------------------------------------------------------------------------
(* Properties of the two SLS requirements.                                 *)

\* C28: for every candidate with Iyy > 0 of a request with defl_limit > 0,
\* the deflection that generate_plots computes for the active SLS case is
\* <= defl_limit exactly when the candidate's second moment of area (in
\* cm4) is >= the I_req_cm4 it reports, also when 0.75 L^2 - 1100^2 < 0.
C28_DeflectionIffInertia ==
    (plots.status = "ok" /\ Gt(plots.defl_limit, R(0))) =>
        \A i \in 1..Len(plots.candidates) :
            Gt(plots.candidates[i].Iyy, R(0)) =>
                (Leq(plots.defl_values[i], plots.defl_limit) <=>
                 Geq(Div(plots.candidates[i].Iyy, R(10000)), plots.I_req_cm4))

\* C28 witness: the barrier case on a span with 0.75 L^2 < 1100^2: the
\* required I is negative and a candidate with Iyy > 0 was evaluated.
C28_Witness ==
    /\ plots.status = "ok"
    /\ StartsWith(SLS_case, "SLS 2")
    /\ 3 * mullion_length * mullion_length < 4 * BARRIER_LENGTH * BARRIER_LENGTH
    /\ Lt(plots.I_req_cm4, R(0))
    /\ \E i \in 1..Len(plots.candidates) :
           /\ Gt(plots.candidates[i].Iyy, R(0))
           /\ Lt(plots.defl_values[i], R(0))

\* C28 witness of the usual case: one candidate meets both requirements and
\* another meets neither.
C28_WitnessMixed ==
    /\ plots.status = "ok"
    /\ Gt(plots.I_req_cm4, R(0))
    /\ \E i, j \in 1..Len(plots.candidates) :
           /\ Gt(plots.candidates[j].Iyy, R(0))
           /\ Leq(plots.defl_values[i], plots.defl_limit)
           /\ Gt(plots.defl_values[j], plots.defl_limit)

-----------------------------------------------------------------------------
(* Properties of the presentation.                                         *)

\* Whether position i of n candidates is the synthetic custom candidate of
\* the request.
IsTheCustom(i, n) == CustomSupplied /\ i = n

\* C29: a marker of the ULS, SLS or 3D plot has the custom colour only if
\* its candidate is the synthetic custom candidate of the request, a
\* passing custom candidate has it, and a row of the table is styled as
\* custom exactly when it is the custom candidate; no catalog row is marked
\* custom, also when use_custom_section is set and no custom data is given.
C29_OnlyCustomMarkedCustom ==
    /\ plots.status = "ok" =>
           LET n == Len(plots.candidates)
           IN  /\ \A i \in 1..n :
                      /\ plots.uls_colors[i] = TT_Purple => IsTheCustom(i, n)
                      /\ (IsTheCustom(i, n) /\ plots.uls_passed[i]) =>
                             plots.uls_colors[i] = TT_Purple
               /\ \A k \in 1..Len(plots.valid) :
                      plots.sls_colors[k] = TT_Purple =>
                          IsTheCustom(plots.valid[k], n)
               /\ \A k \in 1..Len(plots.points_3d) :
                      plots.points_3d[k].color = TT_Purple <=>
                          IsTheCustom(plots.points_3d[k].source, n)
    /\ section_database.status = "ok" =>
           \A k \in 1..Len(section_database.df_sorted) :
               section_database.styles[k].is_custom <=>
                   IsTheCustom(CandidateIndex(k), Len(section_database.df_mat))

\* The part of C29 that the code keeps: the claim for the requests whose
\* flag and data agree (the flag is set exactly when data is given).
C29_MarkedWhenFlagAndDataAgree ==
    (use_custom_section <=> Truthy(custom_section_data)) =>
        C29_OnlyCustomMarkedCustom

-----------------------------------------------------------------------------
(* Properties of the PDF report stage.                                     *)

\* C30: the PDF report stage takes a row of the table as passing (both
\* pass marks set, and the row among those selected by default or shown
\* when nothing is selected) exactly when the row stands in the passing
\* segment of the ranking.
C30_PdfPassingIsRankedPassing ==
    pdf_report.status = "ok" =>
        /\ \A k \in 1..Len(section_database.df_sorted) :
               (pdf_report.uls_status[k] /\ pdf_report.sls_status[k]) <=>
                   k <= section_database.pass_count
        /\ pdf_report.passing =
               [k \in 1..section_database.pass_count |-> k]
        /\ Len(pdf_report.df_passing) = section_database.pass_count

\* A failing row of the ranking (max utilisation > 1.0) whose displayed
\* percentages are both <= 100 after rounding: the PDF stage has taken it
\* as passing.
C30_RoundedIntoPassing ==
    /\ pdf_report.status = "ok"
    /\ \E k \in 1..Len(section_database.df_sorted) :
           /\ k > section_database.pass_count
           /\ Gt(section_database.df_sorted[k].Max_Utilisation, R(1))
           /\ section_database.df_display[k].ULS_Util_pct = R(100)
           /\ k \in Range(pdf_report.default_indices)

====
